---- MODULE Spec2Model ----
(***************************************************************************)
(* The binary installer (scripts/install.js) and the launcher script       *)
(* (README.md, lines 241-254) of lancedb-mcp-server.                        *)
(*                                                                         *)
(* Spec          one run of the installer, from the platform check to the  *)
(*               end of the process, against a file system that holds the  *)
(*               final path and the temporary path.                        *)
(* LauncherSpec  one run of the launcher script.                           *)
(***************************************************************************)
EXTENDS Integers, Sequences, FiniteSets, TLC

VARIABLES
    platform,     \* process.platform
    arch,         \* process.arch
    pkgVersion,   \* packageJson.version
    pc,           \* where the installer is
    exitCode,     \* the installer's exit status, -1 while it runs
    message,      \* the last line the installer wrote to stderr
    fs,           \* the files at outputPath and tempOutputPath
    fs0,          \* fs as it was when the run began
    binDir,       \* whether the bin directory exists
    binDir0,      \* binDir as it was when the run began
    file,         \* the module-level write stream: "null", "open", "closed"
    requests,     \* the number of https.get calls made
    targets,      \* the URLs the GETs were issued to, in order
    status1,      \* statusCode of the first response, 0 before it
    location,     \* headers.location of the first response
    status2,      \* statusCode of the follow-up response, 0 before it
    body,         \* the body the final response carries
    opens,        \* the number of createWriteStream calls made
    handled,      \* the number of times handleDownload ran
    calls,        \* the calls of the finalize step so far, in order
    totalBytes,   \* parseInt of the content-length header, NaN without one
    downloadedBytes, \* the sum of the lengths of the chunks received
    chunks,       \* the number of 'data' events
    stdout,       \* what handleDownload wrote to stdout while it streamed
    failure,      \* how the transport failed, and where the installer was then
    lpc,          \* where the launcher is
    argv,         \* process.argv.slice(2) of the launcher
    child,        \* the child process: "none", "running", "exited", "failed"
    childArgs,    \* the argument list the child was spawned with
    childCode,    \* the child's exit code, NULL when a signal ended it
    childSignal,  \* the signal that ended the child, "null" when none did
    launcherExit, \* the launcher's exit status, -1 while it runs
    launcherMessage, \* what the launcher wrote to stderr
    spawns        \* the number of spawn calls the launcher made

\* What the run reads of its host and its package, once.
host == <<platform, arch, pkgVersion>>

\* The state of the progress display.
progress == <<totalBytes, downloadedBytes, chunks, stdout>>

ivars == <<host, progress, pc, exitCode, message, fs, fs0, binDir, binDir0,
           file, requests, targets, status1, location, status2, body, opens, handled, calls, failure>>
lvars == <<lpc, argv, child, childArgs, childCode, childSignal, launcherExit,
           launcherMessage, spawns>>
vars == <<ivars, lvars>>

----------------------------------------------------------------------------
(* Bounds of the model. *)

\* The longest response body, in bytes.
MaxBody == 3
\* The most bytes one 'data' chunk carries.
MaxChunk == 2

----------------------------------------------------------------------------
(* The host, and the values the environment supplies. *)

Platforms == {"linux", "darwin", "win32", "freebsd"}
Archs == {"x64", "arm64", "ia32"}
Versions == {"1.2.0", "0.3.1"}
Statuses == {200, 206, 301, 302, 307, 404}

\* The bytes of a response body of n bytes.
Bytes(n) == [i \in 1..n |-> i]

\* JavaScript's NaN and Infinity: Infinity is above every number of the model.
NaN == 0 - 1
Infinity == 1000 * 1000

NoFailure == [kind |-> "none", at |-> "none"]

NoFile == [exists |-> FALSE, data |-> <<>>, exec |-> FALSE]
\* The artifact an earlier successful run installed.
OldArtifact == [exists |-> TRUE, data |-> <<8, 8>>, exec |-> platform # "win32"]
\* The temporary file an earlier run left when it was killed mid-download.
StaleTmp == [exists |-> TRUE, data |-> <<7, 7, 7, 7, 7>>, exec |-> FALSE]

----------------------------------------------------------------------------
(* install.js, lines 7-39: the platform check and the asset locator. *)

SUPPORTED_PLATFORMS ==
    [p \in {"linux", "darwin", "win32"} |->
        CASE p = "linux" -> "linux" [] p = "darwin" -> "darwin" [] p = "win32" -> "win"]

\* SUPPORTED_ARCHS as a table without the arm64 entry.
SUPPORTED_ARCHS_x64Only == [a \in {"x64"} |-> a]

SUPPORTED_ARCHS == [a \in {"x64", "arm64"} |-> a]

\* obj[key] of a JavaScript object used as a truth value.
Has(obj, key) == key \in DOMAIN obj

\* Supported with the two table lookups joined by && in place of ||.
SupportedBothMissing(p, a) ==
    IF p = "linux" /\ a = "arm64"
    THEN TRUE
    ELSE ~(~Has(SUPPORTED_PLATFORMS, p) /\ ~Has(SUPPORTED_ARCHS, a))

\* The condition under which the script goes on past line 26.
Supported(p, a) ==
    IF p = "linux" /\ a = "arm64"
    THEN TRUE
    ELSE ~(~Has(SUPPORTED_PLATFORMS, p) \/ ~Has(SUPPORTED_ARCHS, a))

\* Strings are sequences of pieces; + and template literals are \o.
\* ${obj[key]} in a template literal: a missing key reads as 'undefined'.
Lookup(obj, key) == IF Has(obj, key) THEN <<obj[key]>> ELSE <<"undefined">>

binaryName == <<"lancedb-mcp-server">>
\* extension with the test turned round.
extensionExeElsewhere == IF platform # "win32" THEN <<".exe">> ELSE <<>>
extension == IF platform = "win32" THEN <<".exe">> ELSE <<>>
assetName ==
    binaryName \o <<"-">> \o Lookup(SUPPORTED_PLATFORMS, platform)
               \o <<"-">> \o Lookup(SUPPORTED_ARCHS, arch) \o extension
version == <<"v", pkgVersion>>
repoUrl == <<"https://github.com/gongxh13/lancedb-mcp-server">>
downloadUrl ==
    repoUrl \o <<"/releases/download/">> \o version \o <<"/">> \o assetName

\* path.join(dir, name).
PathJoin(dir, name) == dir \o <<"/">> \o name

binDirPath == <<"bin">>
outputPath == PathJoin(binDirPath, binaryName \o extension)
\* tempOutputPath without the '.tmp' suffix: the download goes to the final path.
tempOutputPathNoSuffix == outputPath
tempOutputPath == outputPath \o <<".tmp">>

----------------------------------------------------------------------------
(* The file system calls the installer makes. *)

\* fs.createWriteStream(path, {flags: 'a'}): what the file holds is kept.
CreateNoTruncate(fsys, path) ==
    [fsys EXCEPT ![path] = [exists |-> TRUE, data |-> @.data,
                            exec |-> IF @.exists THEN @.exec ELSE FALSE]]

\* fs.createWriteStream(path): the file is created, or truncated if it exists.
CreateOrTruncate(fsys, path) ==
    [fsys EXCEPT ![path] = [exists |-> TRUE, data |-> <<>>,
                            exec |-> IF @.exists THEN @.exec ELSE FALSE]]

\* One chunk of n bytes of the body piped into the file at path.
WriteChunk(fsys, path, n) ==
    [fsys EXCEPT ![path].data = SubSeq(body, 1, Len(@) + n)]

\* fs.renameSync(from, to).
Rename(fsys, from, to) ==
    IF from = to
    THEN fsys
    ELSE [fsys EXCEPT ![to] = fsys[from], ![from] = NoFile]

\* fs.chmodSync(path, '755').
Chmod755(fsys, path) == [fsys EXCEPT ![path].exec = TRUE]

\* fs.existsSync(path) and then fs.unlinkSync(path).
UnlinkIfExists(fsys, path) ==
    IF fsys[path].exists THEN [fsys EXCEPT ![path] = NoFile] ELSE fsys

\* The bytes of the body that reached the write stream so far.
received == Len(fs[tempOutputPath].data)

----------------------------------------------------------------------------
(* The installer. *)

IInit ==
    /\ platform \in Platforms
    /\ arch \in Archs
    /\ pkgVersion \in Versions
    /\ pc = "start"
    /\ exitCode = -1
    /\ message = "none"
    /\ \E f \in {NoFile, OldArtifact}, t \in {NoFile, StaleTmp} :
          fs = [p \in {outputPath, tempOutputPath} |->
                   IF p = outputPath THEN f ELSE t]
    /\ fs0 = fs
    /\ binDir \in BOOLEAN
    /\ (\E p \in DOMAIN fs : fs[p].exists) => binDir
    /\ binDir0 = binDir
    /\ file = "null"
    /\ requests = 0
    /\ targets = <<>>
    /\ status1 = 0
    /\ location = "none"
    /\ status2 = 0
    /\ body = <<>>
    /\ opens = 0
    /\ handled = 0
    /\ calls = <<>>
    /\ totalBytes = NaN
    /\ downloadedBytes = 0
    /\ chunks = 0
    /\ stdout = <<>>
    /\ failure = NoFailure

\* process.exit(code) after console.error(msg).
Exit(code, msg) ==
    /\ pc' = "exited"
    /\ exitCode' = code
    /\ message' = msg

\* Lines 7-45 and 115: the script's top level. An unsupported host ends the
\* run at line 25; otherwise the bin directory is made and the first GET is
\* issued.
Main ==
    /\ pc = "start"
    /\ IF Supported(platform, arch)
       THEN /\ binDir' = TRUE
            /\ requests' = requests + 1
            /\ targets' = Append(targets, downloadUrl)
            /\ pc' = "get1"
            /\ UNCHANGED <<exitCode, message>>
       ELSE /\ Exit(1, "Unsupported platform or architecture")
            /\ UNCHANGED <<binDir, requests, targets>>
    /\ UNCHANGED <<host, progress, calls, handled, failure, fs, fs0, binDir0, file, status1, location,
                   status2, body, opens, lvars>>

\* Line 59.
progressBarWidth == 28

\* Math.round(num / den) for num >= 0 and den > 0.
Round(num, den) == (2 * num + den) \div (2 * den)

Min(a, b) == IF a <= b THEN a ELSE b
Max(a, b) == IF a >= b THEN a ELSE b

\* Line 68: (downloadedBytes / totalBytes * 100).toFixed(1), in tenths of a
\* percent. A total of 0 makes the quotient Infinity.
Percent(d, t) == IF t = 0 THEN Infinity ELSE Round(d * 1000, t)

\* Math.round((downloadedBytes / totalBytes) * progressBarWidth).
FilledRaw(d, t) == IF t = 0 THEN Infinity ELSE Round(d * progressBarWidth, t)

\* Lines 69-72 without Math.min and Math.max.
FilledNoClamp(d, t) == FilledRaw(d, t)

\* Lines 69-72: the number of '#' cells.
Filled(d, t) == Max(0, Min(progressBarWidth, FilledRaw(d, t)))

\* Lines 73-74: the line written for a chunk: '#' and '-' cells, the percent.
ProgressLine(d, t) ==
    [kind |-> "bar", hashes |-> Filled(d, t),
     dashes |-> progressBarWidth - Filled(d, t), percent |-> Percent(d, t)]

\* Line 62.
SizeUnknownNotice == [kind |-> "size unknown", hashes |-> 0, dashes |-> 0, percent |-> 0]

\* Lines 57-63: the declared size is read and, without one, the notice written.
StartProgress ==
    /\ \E t \in {NaN} \cup 0..MaxBody : totalBytes' = t
    /\ downloadedBytes' = 0
    /\ chunks' = 0
    /\ stdout' = IF totalBytes' = NaN THEN <<SizeUnknownNotice>> ELSE <<>>

\* Lines 65-76: the 'data' listener, for a chunk of n bytes.
OnData(n) ==
    /\ downloadedBytes' = downloadedBytes + n
    /\ chunks' = chunks + 1
    /\ stdout' = IF totalBytes # NaN
                 THEN Append(stdout, ProgressLine(downloadedBytes + n, totalBytes))
                 ELSE stdout
    /\ UNCHANGED totalBytes

\* handleDownload with the write stream created before the status is looked at.
handleDownloadOpenFirst(status) ==
    /\ handled' = handled + 1
    /\ file' = "open"
    /\ opens' = opens + 1
    /\ fs' = CreateOrTruncate(fs, tempOutputPath)
    /\ IF status # 200
       THEN /\ Exit(1, "Failed to download binary. Status code")
            /\ UNCHANGED <<body, progress>>
       ELSE /\ \E n \in 0..MaxBody : body' = Bytes(n)
            /\ StartProgress
            /\ pc' = "streaming"
            /\ UNCHANGED <<exitCode, message>>

\* Lines 49-78: handleDownload(response), up to the start of the stream.
handleDownload(status) ==
    /\ handled' = handled + 1
    /\ IF status # 200
       THEN /\ Exit(1, "Failed to download binary. Status code")
            /\ UNCHANGED <<fs, file, body, opens, progress>>
       ELSE /\ file' = "open"
            /\ opens' = opens + 1
            /\ fs' = CreateOrTruncate(fs, tempOutputPath)
            /\ \E n \in 0..MaxBody : body' = Bytes(n)
            /\ StartProgress
            /\ pc' = "streaming"
            /\ UNCHANGED <<exitCode, message>>

\* Lines 115-120: the callback of the first GET.
FirstResponse ==
    /\ pc = "get1"
    /\ \E status \in Statuses, loc \in {"url", "undefined"} :
          /\ status1' = status
          /\ IF status = 302 \/ status = 301
             THEN /\ location' = loc
                  /\ requests' = requests + 1
                  /\ targets' = Append(targets, <<loc>>)
                  /\ pc' = "get2"
                  /\ UNCHANGED <<exitCode, message, fs, file, body, opens, handled,
                               progress>>
             ELSE /\ handleDownload(status)
                  /\ UNCHANGED <<location, requests, targets>>
    /\ UNCHANGED <<host, calls, failure, fs0, binDir, binDir0, status2, lvars>>

\* SecondResponse with the follow-up response handled as the first one is: a
\* redirect is followed again.
SecondResponseFollowsAgain ==
    /\ pc = "get2"
    /\ location = "url"
    /\ \E status \in Statuses :
          /\ status2' = status
          /\ IF status = 302 \/ status = 301
             THEN /\ requests' = requests + 1
                  /\ targets' = Append(targets, <<"url">>)
                  /\ UNCHANGED <<pc, exitCode, message, fs, file, body, opens,
                               handled, progress>>
             ELSE /\ handleDownload(status)
                  /\ UNCHANGED <<requests, targets>>
    /\ UNCHANGED <<host, calls, failure, fs0, binDir, binDir0, status1,
                   location, lvars>>

\* Line 117: handleDownload as the callback of the follow-up GET. A GET whose
\* target is undefined reaches no release server: it ends in RequestError.
SecondResponse ==
    /\ pc = "get2"
    /\ location = "url"
    /\ \E status \in Statuses :
          /\ status2' = status
          /\ handleDownload(status)
    /\ UNCHANGED <<host, calls, targets, failure, fs0, binDir, binDir0, requests, status1,
                   location, lvars>>

\* Lines 65-78: a 'data' event; response.pipe(file) writes the chunk.
ReceiveChunk ==
    /\ pc = "streaming"
    /\ file = "open"
    /\ \E n \in 1..MaxChunk :
          /\ received + n <= Len(body)
          /\ fs' = WriteChunk(fs, tempOutputPath, n)
          /\ OnData(n)
    /\ UNCHANGED <<host, calls, handled, targets, failure, pc, exitCode, message, fs0, binDir, binDir0,
                   file, requests, status1, location, status2, body, opens, lvars>>

\* Lines 78-85: the response ends, pipe ends the file, 'finish' fires and
\* file.close() closes the handle.
OnFinish ==
    /\ pc = "streaming"
    /\ received = Len(body)
    /\ file' = "closed"
    /\ pc' = "closed"
    /\ calls' = Append(calls, "close")
    /\ UNCHANGED <<host, progress, handled, targets, failure, exitCode, message, fs, fs0, binDir, binDir0,
                   requests, status1, location, status2, body, opens, lvars>>

\* Lines 86-87 and 91-94: fs.renameSync in the close callback; it may throw.
RenameStep ==
    /\ pc = "closed"
    /\ \/ /\ fs' = Rename(fs, tempOutputPath, outputPath)
          /\ pc' = "renamed"
          /\ calls' = Append(calls, "renameSync")
          /\ UNCHANGED <<exitCode, message>>
       \/ /\ Exit(1, "Failed to move binary to final location")
          /\ calls' = Append(calls, "renameSync threw")
          /\ UNCHANGED fs
    /\ UNCHANGED <<host, progress, handled, targets, failure, fs0, binDir, binDir0, file, requests,
                   status1, location, status2, body, opens, lvars>>

\* ChmodStep without the test of the platform.
ChmodStepEveryHost ==
    /\ pc = "renamed"
    /\ \/ /\ fs' = Chmod755(fs, outputPath)
          /\ calls' = Append(calls, "chmodSync")
          /\ Exit(0, message)
       \/ /\ Exit(1, "Failed to move binary to final location")
          /\ calls' = Append(calls, "chmodSync threw")
          /\ UNCHANGED fs
    /\ UNCHANGED <<host, progress, handled, targets, failure, fs0, binDir, binDir0, file, requests,
                   status1, location, status2, body, opens, lvars>>

\* Lines 88-94: fs.chmodSync unless the host is win32; it may throw. When the
\* callback returns nothing is pending and the process ends with status 0.
ChmodStep ==
    /\ pc = "renamed"
    /\ \/ /\ fs' = IF platform # "win32" THEN Chmod755(fs, outputPath) ELSE fs
          /\ calls' = IF platform # "win32" THEN Append(calls, "chmodSync") ELSE calls
          /\ Exit(0, message)
       \/ /\ platform # "win32"
          /\ Exit(1, "Failed to move binary to final location")
          /\ calls' = Append(calls, "chmodSync threw")
          /\ UNCHANGED fs
    /\ UNCHANGED <<host, progress, handled, targets, failure, fs0, binDir, binDir0, file, requests,
                   status1, location, status2, body, opens, lvars>>

\* onError with the final path unlinked in place of the temporary one.
onErrorUnlinksFinal ==
    /\ file' = IF file # "null" THEN "closed" ELSE file
    /\ fs' = UnlinkIfExists(fs, outputPath)
    /\ Exit(1, "Error downloading binary")

\* onError without process.exit(1): the process ends when nothing is pending.
onErrorNoExit ==
    /\ file' = IF file # "null" THEN "closed" ELSE file
    /\ fs' = UnlinkIfExists(fs, tempOutputPath)
    /\ Exit(0, "Error downloading binary")

\* Lines 99-113: onError, the 'error' listener of both requests.
onError ==
    /\ file' = IF file # "null" THEN "closed" ELSE file
    /\ fs' = UnlinkIfExists(fs, tempOutputPath)
    /\ Exit(1, "Error downloading binary")

\* RequestError with the download started again after the cleanup.
RequestErrorRetries ==
    /\ pc \in {"get1", "get2", "streaming"}
    /\ failure' = [kind |-> "error", at |-> pc]
    /\ file' = IF file # "null" THEN "closed" ELSE file
    /\ fs' = UnlinkIfExists(fs, tempOutputPath)
    /\ requests' = requests + 1
    /\ targets' = Append(targets, downloadUrl)
    /\ pc' = "get1"
    /\ UNCHANGED <<host, progress, calls, handled, exitCode, message, fs0, binDir, binDir0,
                   status1, location, status2, body, opens, lvars>>

\* Lines 117 and 121: a request emits 'error': the connection fails before a
\* response, or the socket fails while the body is read.
RequestError ==
    /\ pc \in {"get1", "get2", "streaming"}
    /\ failure' = [kind |-> "error", at |-> pc]
    /\ onError
    /\ UNCHANGED <<host, progress, calls, handled, targets, fs0, binDir, binDir0, requests, status1,
                   location, status2, body, opens, lvars>>

\* Lines 65-78: the connection closes before the body is complete. Node
\* reports this on the response ('aborted'; 'error' only to a listener of the
\* response), and the response has listeners for 'data' alone: no handler
\* runs, 'end' never fires, the file is never finished and the process ends
\* with status 0 once nothing is pending.
ResponseAborted ==
    /\ pc = "streaming"
    /\ received < Len(body)
    /\ failure' = [kind |-> "aborted", at |-> pc]
    /\ Exit(0, message)
    /\ UNCHANGED <<host, progress, calls, handled, targets, fs, fs0, binDir, binDir0, file, requests,
                   status1, location, status2, body, opens, lvars>>

\* The exit status of a process that SIGKILL ended.
KilledStatus == 128 + 9

\* The process is killed from outside during the fetch or the finalize step.
Kill ==
    /\ pc \in {"get1", "get2", "streaming", "closed", "renamed"}
    /\ Exit(KilledStatus, message)
    /\ UNCHANGED <<host, progress, calls, handled, targets, failure, fs, fs0, binDir, binDir0, file, requests,
                   status1, location, status2, body, opens, lvars>>

----------------------------------------------------------------------------
(* The launcher, README.md lines 241-254. *)

\* JavaScript's null.
NULL == 0 - 1

ExitCodes == 0..255
ArgLists == {<<>>, <<"--help">>, <<"--db-path", "/data">>, <<"/data", "--db-path">>}

LIdle ==
    /\ lpc = "start"
    /\ argv = <<>>
    /\ child = "none"
    /\ childArgs = <<>>
    /\ childCode = NULL
    /\ childSignal = "null"
    /\ launcherExit = -1
    /\ launcherMessage = "none"
    /\ spawns = 0

\* process.argv of the launcher: the node binary, the script, then the
\* arguments the caller supplied.
processArgv == <<"node", "bin/lancedb-mcp-server.js">> \o argv

\* Array.prototype.slice(k) with the index taken as one-based: one more
\* element is dropped.
SliceOneBased(seq, k) == SubSeq(seq, k + 2, Len(seq))

\* Array.prototype.slice(k): the elements from zero-based index k on.
Slice(seq, k) == SubSeq(seq, k + 1, Len(seq))

\* process.exit() called without the code.
ProcessExitNoCode(code) == 0

\* Line 253: process.exit(code). A null code leaves process.exitCode unset
\* and the process ends with status 0.
ProcessExit(code) == IF code = NULL THEN 0 ELSE code

\* Lines 245-250: spawn(binaryPath, process.argv.slice(2), ...). With no file
\* at binaryPath the child emits 'error', which has no listener: the launcher
\* dies of the uncaught exception with status 1.
Spawn ==
    /\ lpc = "start"
    /\ spawns' = spawns + 1
    /\ IF fs[outputPath].exists
       THEN /\ child' = "running"
            /\ childArgs' = Slice(processArgv, 2)
            /\ lpc' = "waiting"
            /\ UNCHANGED <<launcherExit, launcherMessage>>
       ELSE /\ child' = "failed"
            /\ lpc' = "exited"
            /\ launcherExit' = 1
            /\ launcherMessage' = "Uncaught Error: spawn ENOENT"
            /\ UNCHANGED childArgs
    /\ UNCHANGED <<ivars, argv, childCode, childSignal>>

\* The child exits normally with a code.
ChildExit ==
    /\ child = "running"
    /\ \E c \in ExitCodes : childCode' = c
    /\ child' = "exited"
    /\ UNCHANGED <<ivars, lpc, argv, childArgs, childSignal, launcherExit,
                   launcherMessage, spawns>>

\* A signal ends the child: its 'exit' event carries (null, signal).
ChildKilled ==
    /\ child = "running"
    /\ \E s \in {"SIGTERM", "SIGKILL"} : childSignal' = s
    /\ child' = "exited"
    /\ UNCHANGED <<ivars, lpc, argv, childArgs, childCode, launcherExit,
                   launcherMessage, spawns>>

\* Lines 252-254: the 'exit' listener.
OnChildExit ==
    /\ lpc = "waiting"
    /\ child = "exited"
    /\ launcherExit' = ProcessExit(childCode)
    /\ lpc' = "exited"
    /\ UNCHANGED <<ivars, argv, child, childArgs, childCode, childSignal,
                   launcherMessage, spawns>>

----------------------------------------------------------------------------
(* The specifications. *)

Init == IInit /\ LIdle

Next ==
    \/ Main
    \/ FirstResponse
    \/ SecondResponse
    \/ ReceiveChunk
    \/ OnFinish
    \/ RenameStep
    \/ ChmodStep
    \/ RequestError
    \/ ResponseAborted
    \/ Kill

Spec == Init /\ [][Next]_vars

LInit ==
    /\ IInit
    /\ lpc = "start"
    /\ argv \in ArgLists
    /\ child = "none"
    /\ childArgs = <<>>
    /\ childCode = NULL
    /\ childSignal = "null"
    /\ launcherExit = -1
    /\ launcherMessage = "none"
    /\ spawns = 0

LNext ==
    \/ Spawn
    \/ ChildExit
    \/ ChildKilled
    \/ OnChildExit

LauncherSpec == LInit /\ [][LNext]_vars

----------------------------------------------------------------------------
(* Properties of the installer and of the launcher. *)

final == fs[outputPath]
temp == fs[tempOutputPath]

\* The final path holds the complete body of a finished transfer.
HoldsCompleteTransfer ==
    /\ final.exists
    /\ final.data = body
    /\ file = "closed"
    /\ pc \in {"renamed", "exited"}

\* C1: in every state of an install run the final path holds what it held
\* before the run (a file or nothing) or the complete bytes of a finished
\* transfer; the bytes of a response under way are at the temporary path only.
C1_FinalNeverPartial ==
    \/ final = fs0[outputPath]
    \/ HoldsCompleteTransfer

\* A run killed mid-fetch, with part of the body in the temporary file.
C1_Witness ==
    /\ pc = "exited"
    /\ exitCode = KilledStatus
    /\ temp.exists
    /\ 0 < received
    /\ received < Len(body)
    /\ final = fs0[outputPath]

\* C2: a transport failure while the body is streamed ends the run with the
\* temporary file deleted, the write handle closed, the final path as it was
\* and a non-zero exit status.
C2_StreamFailureCleansUp ==
    (failure.kind # "none" /\ failure.at = "streaming") =>
        /\ pc = "exited"
        /\ ~temp.exists
        /\ file = "closed"
        /\ final = fs0[outputPath]
        /\ exitCode > 0

\* C3: a child ended by a signal never makes the launcher exit with 0.
C3_SignalExitNonZero ==
    (lpc = "exited" /\ child = "exited" /\ childSignal # "null") =>
        launcherExit > 0

\* C4: the launcher exits only once its child has exited (or could not be
\* started), and after a normal child exit with code c its own status is c.
C4_ExitCodeMirrored ==
    /\ lpc = "exited" => child \in {"exited", "failed"}
    /\ (lpc = "exited" /\ child = "exited" /\ childSignal = "null") =>
          /\ childCode \in ExitCodes
          /\ launcherExit = childCode

\* The launcher has passed on the largest exit code.
C4_Witness ==
    /\ lpc = "exited"
    /\ child = "exited"
    /\ childCode = 255
    /\ launcherExit = 255

\* C5: on a host other than win32 the newly downloaded file is never at the
\* final path without its executable bits.
C5_NoUnexecutableArtifact ==
    ~ /\ platform # "win32"
      /\ final.exists
      /\ final # fs0[outputPath]
      /\ ~final.exec

\* C6: a run whose finalize step failed, in the rename or in the chmod, ends
\* with status 1 and the final path as it was before the run.
C6_FinalizeFailureLeavesFinal ==
    (pc = "exited" /\ message = "Failed to move binary to final location") =>
        /\ exitCode = 1
        /\ final = fs0[outputPath]

\* The attempt succeeded in full.
FullySucceeded ==
    /\ final.exists
    /\ final.data = body
    /\ file = "closed"
    /\ failure.kind = "none"
    /\ platform # "win32" => final.exec
    /\ ~temp.exists

\* C7: a run that was not killed ends with status 0 exactly when the attempt
\* succeeded in full; every other run ends with a non-zero status.
C7_ZeroIffSucceeded ==
    (pc = "exited" /\ exitCode # KilledStatus) =>
        /\ exitCode >= 0
        /\ exitCode = 0 <=> FullySucceeded

\* The pairs the platform resolver is to accept.
AllowList == {"linux", "darwin", "win32"} \X {"x64", "arm64"}

\* C8: on a host outside the allow-list the run ends with status 1 with no
\* GET issued, no directory and no file made; on a host inside it the
\* platform check does not fail.
C8_UnsupportedPlatformFailsFirst ==
    /\ <<platform, arch>> \notin AllowList =>
          /\ requests = 0
          /\ binDir = binDir0
          /\ fs = fs0
          /\ opens = 0
          /\ pc # "start" =>
                /\ pc = "exited"
                /\ exitCode = 1
                /\ message = "Unsupported platform or architecture"
    /\ <<platform, arch>> \in AllowList =>
          /\ message # "Unsupported platform or architecture"
          /\ pc # "start" => requests >= 1

\* An unsupported architecture on a supported system has ended the run.
C8_Witness ==
    /\ platform = "win32"
    /\ arch = "ia32"
    /\ pc = "exited"
    /\ exitCode = 1

IsRedirect(status) == status = 301 \/ status = 302

\* C9: a redirect as first response is followed by exactly one more GET, no
\* run issues a third, and a redirect as second response ends the run with
\* status 1 and nothing written.
C9_OneRedirectHop ==
    /\ requests <= 2
    /\ IsRedirect(status1) <=> requests = 2
    /\ status2 # 0 => IsRedirect(status1)
    /\ (status2 # 0 /\ status2 \in 300..399) =>
          /\ pc = "exited"
          /\ exitCode = 1
          /\ opens = 0
          /\ file = "null"
          /\ fs = fs0

\* Two redirects in a row.
C9_Witness ==
    /\ status1 = 302
    /\ status2 = 301
    /\ pc = "exited"

\* The status of the response that handleDownload was given, 0 before it.
finalStatus ==
    IF status2 # 0 THEN status2
    ELSE IF IsRedirect(status1) THEN 0 ELSE status1

\* C10: a final response whose status is not a success ends the run with
\* status 1, the write stream never opened, no file made and the final path
\* as it was.
C10_BadStatusWritesNothing ==
    (finalStatus # 0 /\ finalStatus \notin 200..299) =>
        /\ pc = "exited"
        /\ exitCode = 1
        /\ message = "Failed to download binary. Status code"
        /\ file = "null"
        /\ opens = 0
        /\ fs = fs0

\* A 302 that leads to a 404.
C10_Witness ==
    /\ status1 = 302
    /\ status2 = 404
    /\ pc = "exited"
    /\ exitCode = 1

\* C11: with no artifact at its path the launcher exits with status 1, tells
\* the user to run the installation again, and no child process runs.
C11_ArtifactMissingReported ==
    (lpc = "exited" /\ ~fs[outputPath].exists) =>
        /\ launcherExit = 1
        /\ child = "failed"
        /\ launcherMessage = "Binary not found: run the installation again"

\* C14: the launcher calls spawn once, and the child's argument list is the
\* caller's: same elements, same order, nothing added or dropped.
C14_ArgumentsForwarded ==
    /\ spawns <= 1
    /\ lpc # "start" => spawns = 1
    /\ child \in {"running", "exited"} => childArgs = argv

\* The child runs with the two arguments of the caller.
C14_Witness ==
    /\ child = "running"
    /\ argv = <<"--db-path", "/data">>
    /\ childArgs = <<"--db-path", "/data">>

\* path.dirname(p): what comes before the last separator.
Dirname(p) ==
    LET last == CHOOSE i \in 1..Len(p) :
                    p[i] = "/" /\ \A j \in (i + 1)..Len(p) : p[j] # "/"
    IN SubSeq(p, 1, last - 1)

\* C13: on a supported host the URL the first GET goes to is
\* <release-host>/releases/download/v<version>/<baseName>-<osTag>-<archTag><ext>,
\* <ext> is '.exe' on win32 and empty elsewhere, the final path is
\* <binDir>/<baseName><ext>, and the temporary path is the final path with
\* '.tmp' appended: another path in the same directory.
C13_AssetLocator ==
    Supported(platform, arch) =>
        LET ext == IF platform = "win32" THEN <<".exe">> ELSE <<>>
            url == <<"https://github.com/gongxh13/lancedb-mcp-server",
                     "/releases/download/", "v", pkgVersion, "/",
                     "lancedb-mcp-server", "-", SUPPORTED_PLATFORMS[platform],
                     "-", SUPPORTED_ARCHS[arch]>> \o ext
        IN /\ extension = ext
           /\ downloadUrl = url
           /\ pc # "start" => targets[1] = url
           /\ outputPath = <<"bin", "/", "lancedb-mcp-server">> \o ext
           /\ tempOutputPath = outputPath \o <<".tmp">>
           /\ tempOutputPath # outputPath
           /\ Dirname(outputPath) = binDirPath
           /\ Dirname(tempOutputPath) = binDirPath
           /\ DOMAIN fs = {outputPath, tempOutputPath}

\* The first GET of a win32/arm64 host for version 1.2.0.
C13_Witness ==
    /\ pc = "get1"
    /\ targets = << <<"https://github.com/gongxh13/lancedb-mcp-server",
                      "/releases/download/", "v", "1.2.0", "/",
                      "lancedb-mcp-server", "-", "win", "-", "arm64", ".exe">> >>

\* The platform check without the linux/arm64 branch.
SupportedGeneric(p, a) ==
    ~(~Has(SUPPORTED_PLATFORMS, p) \/ ~Has(SUPPORTED_ARCHS, a))

\* C19: the check with the linux/arm64 branch and the check made of the two
\* table lookups alone accept the same hosts, the run goes on past the check
\* exactly on those, and the asset name of an accepted host is made of
\* entries of the two tables.
C19_SpecialCaseRedundant ==
    /\ Supported(platform, arch) <=> SupportedGeneric(platform, arch)
    /\ pc # "start" =>
          (message = "Unsupported platform or architecture"
              <=> ~SupportedGeneric(platform, arch))
    /\ Supported(platform, arch) =>
          assetName = binaryName \o <<"-", SUPPORTED_PLATFORMS[platform],
                                      "-", SUPPORTED_ARCHS[arch]>> \o extension

\* A linux/arm64 host has passed the check.
C19_Witness ==
    /\ platform = "linux"
    /\ arch = "arm64"
    /\ pc = "get1"
    /\ assetName = <<"lancedb-mcp-server", "-", "linux", "-", "arm64">>

\* Whether the finalize step made the call c.
Called(c) == \E i \in 1..Len(calls) : calls[i] = c

\* C12: in a run over an installed artifact the final path holds, in every
\* state, all of the old artifact's bytes or all of the new transfer's, and
\* the old artifact itself for as long as the rename has not been made.
C12_OverwriteAtomic ==
    fs0[outputPath] = OldArtifact =>
        /\ final.exists
        /\ \/ final.data = OldArtifact.data
           \/ final.data = body /\ Called("renameSync")
        /\ ~Called("renameSync") => final = OldArtifact

\* A run over an installed artifact that failed while the body was streamed.
C12_Witness ==
    /\ fs0[outputPath] = OldArtifact
    /\ pc = "exited"
    /\ failure = [kind |-> "error", at |-> "streaming"]
    /\ Len(body) > 0
    /\ final = OldArtifact

\* C15: chmodSync is called only right after a renameSync that returned, and
\* never on win32; renameSync is called only right after the write stream
\* has finished and closed, with the whole body in the file.
C15_FinalizeOrder ==
    /\ \A i \in 1..Len(calls) :
          /\ calls[i] \in {"chmodSync", "chmodSync threw"} =>
                /\ platform # "win32"
                /\ i > 1
                /\ calls[i - 1] = "renameSync"
          /\ calls[i] \in {"renameSync", "renameSync threw"} =>
                /\ i > 1
                /\ calls[i - 1] = "close"
                /\ file = "closed"
          /\ calls[i] = "renameSync" => final.data = body
          /\ calls[i] = "renameSync threw" => i = Len(calls)
    /\ platform = "win32" => ~final.exec
    /\ (final.exec /\ final # fs0[outputPath]) => Called("chmodSync")

\* A finalize step that made all three calls.
C15_Witness ==
    /\ calls = <<"close", "renameSync", "chmodSync">>
    /\ final.exec
    /\ pc = "exited"

C17_SingleAttempt ==
    /\ requests <= 2
    /\ Len(targets) = requests
    /\ handled <= 1
    /\ opens <= handled
    /\ pc = "streaming" => (opens = 1 /\ file = "open")
    /\ file # "null" => opens = 1

\* A body is streamed after the one redirect hop.
C17_Witness ==
    /\ requests = 2
    /\ handled = 1
    /\ opens = 1
    /\ pc = "streaming"

\* Whether s is a prefix of t.
IsPrefix(s, t) ==
    /\ Len(s) <= Len(t)
    /\ \A i \in 1..Len(s) : s[i] = t[i]

\* C18: in a run that finds a stale temporary file, the temporary file holds
\* bytes of the new body only from the moment the stream starts, and after
\* a successful run the final path holds exactly the new body and the
\* temporary file is gone.
C18_StaleTempTruncated ==
    fs0[tempOutputPath] = StaleTmp =>
        /\ pc \in {"streaming", "closed"} =>
              (temp.exists /\ IsPrefix(temp.data, body))
        /\ (pc = "exited" /\ exitCode = 0 /\ failure.kind = "none") =>
              /\ final.exists
              /\ final.data = body
              /\ ~temp.exists

\* A successful run that began with a stale temporary file.
C18_Witness ==
    /\ fs0[tempOutputPath] = StaleTmp
    /\ pc = "exited"
    /\ exitCode = 0
    /\ failure.kind = "none"
    /\ Len(body) > 0
    /\ final.data = body

\* C20: with a declared size every chunk adds one line, each line has 28
\* cells of which 0..28 are filled, and the filled cells and the percent
\* never go down from one line to the next, also when more bytes arrive than
\* declared; without a declared size the output is the one notice.
C20_ProgressMonotone ==
    /\ (opens = 1 /\ totalBytes # NaN) =>
          /\ Len(stdout) = chunks
          /\ \A i \in 1..Len(stdout) :
                /\ stdout[i].kind = "bar"
                /\ stdout[i].hashes \in 0..28
                /\ stdout[i].dashes \in 0..28
                /\ stdout[i].hashes + stdout[i].dashes = 28
          /\ \A i, j \in 1..Len(stdout) :
                i < j =>
                   /\ stdout[i].hashes <= stdout[j].hashes
                   /\ stdout[i].percent <= stdout[j].percent
    /\ (opens = 1 /\ totalBytes = NaN) => stdout = <<SizeUnknownNotice>>
    /\ opens = 0 => stdout = <<>>

\* Three bytes in two chunks against a declared size of two: the bar is full
\* from the second line on and the percent is above 100.
C20_Witness ==
    /\ totalBytes = 2
    /\ downloadedBytes = 3
    /\ Len(stdout) = 2
    /\ stdout[1].hashes = 14
    /\ stdout[2].hashes = 28
    /\ stdout[2].percent = 1500

====
